---- MODULE Spec2Model ----
(***************************************************************************)
(* multissh (src/main.rs): the command line is parsed into Cli,             *)
(* get_targets resolves the target list, and main runs one closure per      *)
(* target on rayon's global thread pool; the closure prints one line with   *)
(* println!.  Strings are sequences of one-character strings.               *)
(***************************************************************************)
EXTENDS Naturals, Integers, Sequences, FiniteSets, TLC

VARIABLES
    cli,       \* the parsed command line (struct Cli)
    fs,        \* the file at the --targets-file path: None when it does not exist
    down,      \* the hosts that refuse every connection
    accepts,   \* the authentication methods the hosts accept
    pc,        \* "start", "running", "exited", "killed"
    outcome,   \* what get_targets returned: "none" before, then "ok", "err", "panic"
    targets,   \* the Vec<String> get_targets returned
    st,        \* per target: "queued", "started", "prefix", "name", "done"
    lock,      \* the target whose closure holds the stdout lock, or 0
    sink,      \* what has been written to stdout, in chunks
    netlog,    \* the connections and authentications the process has attempted
    exitCode,  \* the exit status of the process: None while it runs
    phase,     \* 1 in a run, 2 in the run repeated without one target
    resA,      \* phase 2: what the first run wrote for each target
    removed    \* phase 2: the position of the target left out

inputs == <<cli, fs, down, accepts>>
iso == <<phase, resA, removed>>
vars == <<cli, fs, down, accepts, pc, outcome, targets, st, lock, sink,
          netlog, exitCode, phase, resA, removed>>

(* ------------------------------ bounds --------------------------------- *)
\* longest --targets argument and longest targets file, in characters
MaxLen == 3
MaxFileLen == 3
\* size of rayon's global pool (the number of CPUs of the machine)
NumThreads == 2

(* --------------------------- program constants -------------------------- *)
ExitOk == 0
ExitErr == 1
ExitPanic == 101
ExitSigint == 130

(* ------------------------------ options --------------------------------- *)
None == << >>
Some(v) == << v >>
IsSome(o) == Len(o) = 1
IsNone(o) == Len(o) = 0
Unwrap(o) == o[1]

\* OptionExt::to_int
ToInt(o) == IF IsSome(o) THEN 1 ELSE 0

(* ------------------------------ strings --------------------------------- *)
NL == "\n"
SP == " "
HASH == "#"
COMMA == ","

ArgChars == {"a", "b", COMMA}
FileChars == {"a", HASH, SP, NL}

StringsUpTo(chars, n) == UNION { [1..k -> chars] : k \in 0..n }

\* str::split(sep): the pieces between separators; "" yields one empty piece
RECURSIVE SplitFrom(_, _, _, _)
SplitFrom(s, sep, k, cur) ==
    IF k > Len(s) THEN << cur >>
    ELSE IF s[k] = sep THEN << cur >> \o SplitFrom(s, sep, k + 1, << >>)
    ELSE SplitFrom(s, sep, k + 1, Append(cur, s[k]))

Split(s, sep) == SplitFrom(s, sep, 1, << >>)

\* the pieces written one after the other with sep between them
RECURSIVE Join(_, _)
Join(ps, sep) ==
    IF ps = << >> THEN << >>
    ELSE IF Len(ps) = 1 THEN ps[1]
    ELSE ps[1] \o << sep >> \o Join(Tail(ps), sep)

RemoveAt(q, k) == SubSeq(q, 1, k - 1) \o SubSeq(q, k + 1, Len(q))

\* str::lines(): the pieces ended by a newline, and a last piece without one
\* when it is not empty
Lines(s) ==
    LET p == Split(s, NL)
    IN  IF p[Len(p)] = << >> THEN SubSeq(p, 1, Len(p) - 1) ELSE p

IsSpace(c) == c = SP \/ c = NL

RECURSIVE TrimStart(_)
TrimStart(s) ==
    IF s # << >> /\ IsSpace(s[1]) THEN TrimStart(Tail(s)) ELSE s

RECURSIVE TrimEnd(_)
TrimEnd(s) ==
    IF s # << >> /\ IsSpace(s[Len(s)]) THEN TrimEnd(SubSeq(s, 1, Len(s) - 1)) ELSE s

\* str::trim
Trim(s) == TrimEnd(TrimStart(s))

\* str::starts_with("#")
StartsWithHash(s) == s # << >> /\ s[1] = HASH

RECURSIVE FilterNotComment(_)
FilterNotComment(ls) ==
    IF ls = << >> THEN << >>
    ELSE IF StartsWithHash(ls[1]) THEN FilterNotComment(Tail(ls))
    ELSE << ls[1] >> \o FilterNotComment(Tail(ls))

MapTrim(ls) == [k \in 1..Len(ls) |-> Trim(ls[k])]

(* --------------------------- target resolution -------------------------- *)
Ok(v) == [kind |-> "ok", val |-> v]
Err == [kind |-> "err", val |-> << >>]
Panic == [kind |-> "panic", val |-> << >>]

\* read_targets_file: file is None when the path does not exist
read_targets_file(file) ==
    IF IsSome(file)
    THEN Ok(FilterNotComment(MapTrim(Lines(Unwrap(file)))))
    ELSE Err

NoOptionUsed(c) ==
    IsNone(c.targets) /\ IsNone(c.targets_file) /\ IsNone(c.inventory_group)

MoreThanOneOptionUsed(c) ==
    ToInt(c.targets) + ToInt(c.targets_file) + ToInt(c.inventory_group) > 1

get_targets(c, file) ==
    IF NoOptionUsed(c) THEN Err
    ELSE IF MoreThanOneOptionUsed(c) THEN Err
    ELSE IF IsSome(c.targets) THEN Ok(Split(Unwrap(c.targets), COMMA))
    ELSE IF IsSome(c.targets_file) THEN read_targets_file(file)
    ELSE IF IsSome(c.inventory_file) THEN Panic
    ELSE Err

(* ------------------------------ the run --------------------------------- *)
Hosts == { <<"b">> }
Methods == {"Key", "Password"}
PREFIX == "Running command on target: "

N == Len(targets)
InFlight == { i \in 1..N : st[i] \in {"started", "prefix", "name"} }
Done == { i \in 1..N : st[i] = "done" }
Queued == { i \in 1..N : st[i] = "queued" }

Options(S) == {None} \cup { Some(v) : v \in S }

\* the command lines tried: one --targets argument, one --targets-file over
\* every file, and every combination of the four target options
ArgInputs ==
    [ targets : Options(StringsUpTo(ArgChars, MaxLen)),
      targets_file : {None}, inventory_file : {None}, inventory_group : {None},
      password : {None} ]

FileInputs ==
    [ targets : {None},
      targets_file : {Some("targets.txt")},
      inventory_file : {None}, inventory_group : {None},
      password : {None} ]

ComboInputs ==
    [ targets : Options({<<"a">>, <<"a", COMMA, "b", COMMA, "a">>}),
      targets_file : Options({"targets.txt"}),
      inventory_file : Options({"inventory.yml"}),
      inventory_group : Options({"web"}),
      password : Options({"secret"}) ]

Init ==
    /\ \/ cli \in ArgInputs /\ fs = None
       \/ cli \in FileInputs /\ fs \in Options(StringsUpTo(FileChars, MaxFileLen))
       \/ cli \in ComboInputs /\ fs \in Options({<<"b">>})
    /\ down \in SUBSET Hosts
    /\ accepts \in SUBSET Methods
    /\ pc = "start"
    /\ outcome = "none"
    /\ targets = << >>
    /\ st = << >>
    /\ lock = 0
    /\ sink = << >>
    /\ netlog = << >>
    /\ exitCode = None
    /\ phase = 1
    /\ resA = << >>
    /\ removed = 0

\* main: Cli::parse, then get_targets(&cli)?
GetTargets ==
    /\ pc = "start"
    /\ LET r == get_targets(cli, fs)
       IN  /\ outcome' = r.kind
           /\ targets' = r.val
           /\ st' = [i \in 1..Len(r.val) |-> "queued"]
           /\ pc' = IF r.kind = "ok" THEN "running" ELSE "exited"
           /\ exitCode' = CASE r.kind = "ok" -> None
                            [] r.kind = "err" -> Some(ExitErr)
                            [] OTHER -> Some(ExitPanic)
    /\ UNCHANGED <<inputs, lock, sink, netlog, iso>>

\* a pool that starts a thread per item
CanStartUnbounded == TRUE

\* par_iter: a closure call runs on a thread of the pool, one per thread
CanStart == Cardinality(InFlight) < NumThreads

StartTarget(i) ==
    /\ pc = "running"
    /\ st[i] = "queued"
    /\ CanStart
    /\ st' = [st EXCEPT ![i] = "started"]
    /\ UNCHANGED <<inputs, pc, outcome, targets, lock, sink, netlog, exitCode, iso>>

\* writing to the stream without taking its lock
LockFreeAlways == TRUE

\* println!: Stdout::write_fmt takes the stdout lock for the whole line
LockFree == lock = 0

WritePrefix(i) ==
    /\ pc = "running"
    /\ st[i] = "started"
    /\ LockFree
    /\ lock' = i
    /\ sink' = Append(sink, [t |-> i, c |-> "prefix", text |-> << PREFIX >>])
    /\ st' = [st EXCEPT ![i] = "prefix"]
    /\ UNCHANGED <<inputs, pc, outcome, targets, netlog, exitCode, iso>>

WriteName(i) ==
    /\ pc = "running"
    /\ st[i] = "prefix"
    /\ sink' = Append(sink, [t |-> i, c |-> "name", text |-> targets[i]])
    /\ st' = [st EXCEPT ![i] = "name"]
    /\ UNCHANGED <<inputs, pc, outcome, targets, lock, netlog, exitCode, iso>>

\* a line ended without giving the stdout lock back
WriteNewlineHoldingLock(i) ==
    /\ pc = "running"
    /\ st[i] = "name"
    /\ sink' = Append(sink, [t |-> i, c |-> "newline", text |-> << NL >>])
    /\ st' = [st EXCEPT ![i] = "done"]
    /\ UNCHANGED <<inputs, pc, outcome, targets, lock, netlog, exitCode, iso>>

WriteNewline(i) ==
    /\ pc = "running"
    /\ st[i] = "name"
    /\ sink' = Append(sink, [t |-> i, c |-> "newline", text |-> << NL >>])
    /\ st' = [st EXCEPT ![i] = "done"]
    /\ lock' = 0
    /\ UNCHANGED <<inputs, pc, outcome, targets, netlog, exitCode, iso>>

\* a batch given up as soon as the closure of a target whose host is down returns
FinishAtFirstFailure ==
    /\ pc = "running"
    /\ (Done = 1..N \/ \E i \in Done : targets[i] \in down)
    /\ pc' = "exited"
    /\ exitCode' = Some(IF Done = 1..N THEN ExitOk ELSE ExitErr)
    /\ UNCHANGED <<inputs, outcome, targets, st, lock, sink, netlog, iso>>

\* for_each returns when every closure call has returned; main returns Ok(())
Finish ==
    /\ pc = "running"
    /\ Done = 1..N
    /\ pc' = "exited"
    /\ exitCode' = Some(ExitOk)
    /\ UNCHANGED <<inputs, outcome, targets, st, lock, sink, netlog, iso>>

\* SIGINT: main installs no handler, the process is terminated
Interrupt ==
    /\ pc = "running"
    /\ pc' = "killed"
    /\ exitCode' = Some(ExitSigint)
    /\ UNCHANGED <<inputs, outcome, targets, st, lock, sink, netlog, iso>>

Work ==
    \/ \E i \in 1..N : StartTarget(i)
    \/ \E i \in 1..N : WritePrefix(i)
    \/ \E i \in 1..N : WriteName(i)
    \/ \E i \in 1..N : WriteNewline(i)

NextRun == GetTargets \/ Work \/ Finish

Next == NextRun \/ Interrupt

Spec == Init /\ [][Next]_vars

\* the threads of the pool and the main thread are scheduled by the operating
\* system; no action reads what the hosts accept, which is fixed here
FairInit == Init /\ accepts = Methods

FairSpec == FairInit /\ [][NextRun]_vars /\ WF_vars(NextRun)

(* --------------------------- what a run produced ------------------------ *)
\* the chunks written for target i, in order
ChunksOf(i) == SelectSeq(sink, LAMBDA e : e.t = i)
ResultOf(i) == [k \in 1..Len(ChunksOf(i)) |-> ChunksOf(i)[k].text]
\* the line println! writes for a target
LineFor(name) == << << PREFIX >>, name, << NL >> >>
\* the targets in the order their lines were completed
Completed == SelectSeq(sink, LAMBDA e : e.c = "newline")
Reported(i) == Cardinality({ k \in 1..Len(sink) : sink[k].t = i /\ sink[k].c = "newline" })

(* ------------------------- the run without one target ------------------ *)
\* after a run that was not interrupted, the program is started again on the
\* same command line with the T-th target, whose host is down, taken out of
\* the --targets argument
Rerun(T) ==
    /\ phase = 1
    /\ pc = "exited"
    /\ outcome = "ok"
    /\ IsSome(cli.targets)
    /\ N >= 2
    /\ targets[T] \in down
    /\ resA' = [i \in 1..N |-> ResultOf(i)]
    /\ removed' = T
    /\ phase' = 2
    /\ cli' = [cli EXCEPT !.targets = Some(Join(RemoveAt(targets, T), COMMA))]
    /\ pc' = "start"
    /\ outcome' = "none"
    /\ targets' = << >>
    /\ st' = << >>
    /\ lock' = 0
    /\ sink' = << >>
    /\ exitCode' = None
    /\ UNCHANGED <<fs, down, accepts, netlog>>

IsoNext == Next \/ \E T \in 1..N : Rerun(T)

IsoSpec == Init /\ [][IsoNext]_vars

\* the position in the first run of the target at position u of the second
InFirstRun(u) == IF u < removed THEN u ELSE u + 1

(* ------------------------- network and credentials ---------------------- *)
\* the authentication methods the command line carries: --private-key has a
\* default value, --password is optional
CredentialMethods(c) ==
    << "Key" >> \o (IF IsSome(c.password) THEN << "Password" >> ELSE << >>)

\* the methods the process tried against target i, in order
AuthAttempts(i) ==
    LET a == SelectSeq(netlog, LAMBDA e : e.t = i /\ e.kind = "auth")
    IN  [k \in 1..Len(a) |-> a[k].method]

\* trying ms in order and stopping at the first accepted one
TriedInOrder(ms) ==
    LET hit == { k \in 1..Len(ms) : ms[k] \in accepts }
    IN  IF hit = {} THEN ms
        ELSE SubSeq(ms, 1, CHOOSE k \in hit : \A j \in hit : k <= j)

Finished == pc = "exited" /\ outcome = "ok"

(* ------------------------------- claims --------------------------------- *)

\* C1: when a run over N targets finishes, the report holds exactly N entries,
\* one per target, and the i-th entry belongs to the i-th submitted target.
C1_ReportInSubmissionOrder ==
    Finished =>
        /\ Len(Completed) = N
        /\ \A i \in 1..N : Completed[i].t = i

\* C2: at most NumThreads targets are in flight in every state, so a target
\* beyond the limit starts only after an in-flight one has finished.
C2_InFlightBounded == Cardinality(InFlight) <= NumThreads

C2_Witness ==
    /\ N > NumThreads
    /\ Cardinality(InFlight) = NumThreads
    /\ Queued # {}
    /\ Done # {}

\* C3: the exit status is not 0 when some target's outcome is not Success; a
\* target whose host refuses the connection cannot have outcome Success.
C3_NonZeroExitOnFailure ==
    (Finished /\ \E i \in 1..N : targets[i] \in down) => exitCode # Some(ExitOk)

\* C4: no worker's chunk follows another worker's unfinished line in the sink.
C4_LinesNotInterleaved ==
    \A k \in 1..(Len(sink) - 1) :
        IF sink[k].c = "newline"
        THEN sink[k + 1].c = "prefix"
        ELSE sink[k + 1].t = sink[k].t /\ sink[k + 1].c # "prefix"

C4_Witness ==
    \E i, j \in 1..N : i # j /\ st[i] = "name" /\ st[j] = "started"

C6_EveryTargetReportedOnce ==
    <>[](pc = "exited" /\ (outcome = "ok" => \A i \in 1..N : Reported(i) = 1))

C6_Witness ==
    /\ Finished
    /\ N > NumThreads
    /\ \A i \in 1..N : Reported(i) = 1
    /\ Completed[1].t # 1

\* C7: after a cancellation every target has a result: the queued ones are
\* resolved as Cancelled, none is left without one.
C7_CancelLeavesNoTargetWithoutResult ==
    pc = "killed" => \A i \in 1..N : Reported(i) = 1

\* C8: against a target whose transport connection succeeds, the methods are
\* tried in list order up to the first one the host accepts, all of them when
\* none is accepted.
C8_AuthMethodsTriedInOrder ==
    Finished =>
        \A i \in 1..N :
            targets[i] \notin down =>
                AuthAttempts(i) = TriedInOrder(CredentialMethods(cli))

\* how many of --targets, --targets-file, --inventory-file the command line has
SourcesGiven(c) ==
    ToInt(c.targets) + ToInt(c.targets_file) + ToInt(c.inventory_file)

\* C9: get_targets returns an error when none or more than one of --targets,
\* --targets-file, --inventory-file is given, never panics, and no target is
\* attempted after an error.
C9_ExactlyOneTargetSource ==
    outcome # "none" =>
        /\ outcome \in {"ok", "err"}
        /\ SourcesGiven(cli) # 1 => outcome = "err"
        /\ outcome = "err" => (sink = << >> /\ InFlight = {})

\* C10: a list get_targets returns has at least one entry, no empty entry, and
\* the entries in the order the user gave them.
C10_TargetsNonEmptyInOrder ==
    outcome = "ok" =>
        /\ Len(targets) >= 1
        /\ \A i \in 1..Len(targets) : targets[i] # << >>
        /\ IsSome(cli.targets) => Join(targets, COMMA) = Unwrap(cli.targets)

====
